---- MODULE Spec2Model ----
(***************************************************************************)
(* A model of the archon batch submitter:                                  *)
(*   - State (src/src/state.rs): the L2 block store and its tip;           *)
(*   - ChannelManager::process_blocks (src/src/channels.rs): the L2        *)
(*     ingestion loop that feeds State;                                    *)
(*   - Archon::start (src/src/client.rs): the wiring of the std::sync::mpsc *)
(*     channels between the Driver, the ChannelManager, the                *)
(*     TransactionManager and the orchestrator's receipt loop.             *)
(* The specifications share the variables:                                 *)
(*   Spec          any sequence of State::add_block / State::clear calls;  *)
(*   IngestSpec    process_blocks against a rollup node and an L2 node,    *)
(*                 with ChannelManager::clear called by the owner;         *)
(*   PipelineSpec  Archon::start and the actors it spawns                  *)
(*                 (FairPipelineSpec adds the scheduler's fairness);       *)
(*   DriverSpec    a Driver spawned on its own, its caller holding the     *)
(*                 Receiver (FairDriverSpec adds the fairness);            *)
(*   TxManagerSpec a TransactionManager spawned on its own, and the        *)
(*                 transaction counts of the L1 accounts;                  *)
(*   BuilderSpec   the construction of a TransactionManager and            *)
(*                 TransactionManager::spawn;                              *)
(*   FairProcessBlocksSpec  process_blocks alone, its task scheduled;      *)
(*   MainSpec      the process of src/bin/archon.rs and its cancellation   *)
(*                 signal (FairMainSpec adds the fairness);                *)
(*   OrderSpec     a comparison of two TransactionIDs.                     *)
(***************************************************************************)
EXTENDS Integers, Sequences, FiniteSets, TLC

\* ------------------------------------------------------------------ bounds
\* Number of distinct H256 values the callers of add_block draw from.
NumHashes == 3
\* Number of add_block calls between two clears in Spec.
MaxPush == 3
\* Highest L2 block number the L2 node ever has.
MaxL2 == 3
\* Number of BlockIds the Driver sends.
MaxEmit == 2
\* Number of messages the embedding program feeds to each actor it preset.
MaxFeed == 2
\* Number of ChannelManager::clear calls made while process_blocks runs.
MaxClear == 1
\* Number of transactions other software sends from the sender address.
MaxSenderTxs == 1
\* Largest number of worker threads of the runtime.
MaxWorkers == 3
\* Longest channel_id of the TransactionIDs compared.
MaxChanIdLen == 2
\* Number of distinct bytes the channel_ids are written with.
NumChars == 2
\* Largest frame_number of the TransactionIDs compared.
MaxFrameNumber == 2

\* Option::None, for Option<H256> and Option<U64>.
None == -1

\* pending_tx.confirmations(6): the confirmations send_transaction waits for.
Confirmations == 6

Hashes == 1..NumHashes

Last(s) == s[Len(s)]

\* ------------------------------------------------------------------ state
VARIABLES
    blocks,     \* State.blocks: Vec<Block<Transaction>>
    tip,        \* State.tip: Option<H256>
    pushed,     \* history: the blocks offered to add_block since State was last empty-by-clear
    updates,    \* history: the BlockUpdate each of them got
    last_op     \* history: the last State method called, and how many blocks a clear dropped

stateVars == <<blocks, tip>>
histVars == <<pushed, updates, last_op>>

VARIABLES
    pb_pc,                      \* process_blocks: position in the loop
    first_iter,                 \* process_blocks: local first_iter
    last_stored_block_number,   \* process_blocks: local last_stored_block_number
    start_block,                \* process_blocks: local start_block
    end_block,                  \* process_blocks: local end_block
    block_number,               \* process_blocks: the for loop's block_number
    l2_head,                    \* L2 node: number of its latest block
    reorg_at,                   \* L2 node: None, or the lowest block number replaced by a reorg
    sync_result,                \* history: outcome of the last sync_status call
    last_update,                \* history: BlockUpdate of the add_block made by the last step, else "None"
    fetched,                    \* history: block numbers requested from the L2 node in this iteration
    cycle,                      \* history: facts about this iteration (see NoCycle)
    pb_sleeps                   \* history: the sleeps of process_blocks since its last
                                \* sync_status call, and whether it has made one

ingestVars == <<pb_pc, first_iter, last_stored_block_number, start_block, end_block,
                block_number, sync_result, last_update, fetched, cycle, pb_sleeps>>
l2Vars == <<l2_head, reorg_at>>

VARIABLES
    start_pc,   \* Archon::start: position in the function
    archon,     \* Archon: the channel ends and the preset actors it holds, start's receipt_recv
    chan,       \* every std::sync::mpsc channel: its queue, live Sender count, whether the Receiver lives
    driver,     \* the spawned Driver task: position, channel end, the last poll's result
    cm,         \* the spawned ChannelManager::execute task: position, channel ends, locals
    tm,         \* the spawned TransactionManager::execute task: position, channel ends, locals
                \* (the wallet among them), the confirmations of the pending transaction,
                \* and (history) the transactions it broadcast, each with the index of its
                \* frame and its signer, the broadcasts whose send_transaction has not
                \* returned, and how the last send_transaction ended
    user,       \* the embedding program: how many messages it fed to the actors it preset
    emitted,        \* history: BlockIds the Driver sent
    cm_received,    \* history: BlockIds ChannelManager::execute received
    frames_sent,    \* history: frames ChannelManager::execute sent
    tm_received,    \* history: frames TransactionManager::execute received
    receipts_sent,  \* history: receipts TransactionManager::execute sent
    receipts_logged \* history: receipts the receipt loop of Archon::start logged

VARIABLE
    compared    \* two TransactionIDs and what their derived comparisons return

ordVars == <<compared>>

VARIABLES
    manager,    \* ChannelManager: its maps pending_txs and confirmed_txs
    cleared     \* history: ChannelManager::clear calls made, blocks the last one dropped

mgrVars == <<manager, cleared>>

VARIABLE
    l1_count    \* L1: the transaction count (next nonce) of each account

chainVars == <<l1_count>>

VARIABLE
    tm_builder  \* a TransactionManager value from its construction to spawn(self):
                \* the fields that are Some, and what spawn returned

builderVars == <<tm_builder>>

VARIABLE
    cancelled   \* the process has been sent the cancellation signal

lifeVars == <<cancelled>>

VARIABLE
    runtime     \* the tokio runtime of the process: its number of worker threads, and
                \* for each spawned task where its code stands and whether it waits in
                \* the run queue, occupies a worker thread, or is parked on a future

rtVars == <<runtime>>

pipeVars == <<start_pc, archon, chan, driver, cm, tm, user>>
pipeHist == <<emitted, cm_received, frames_sent, tm_received, receipts_sent, receipts_logged>>

\* --------------------------------------------------------- State (state.rs)
\* An L2 block, as far as the program reads it: number, hash, parent_hash.
L2Block(n, h, p) == [number |-> n, hash |-> h, parent_hash |-> p]

\* add_block without the parent-hash check.
add_block_no_parent_check(bs, t, block) ==
    IF block.hash = None
    THEN [blocks |-> bs, tip |-> t, update |-> "MissingBlockHash"]
    ELSE [blocks |-> Append(bs, block), tip |-> block.hash, update |-> "Added"]

\* add_block comparing the tip with the block's own hash, not its parent's.
add_block_checks_hash(bs, t, block) ==
    IF t # None /\ t # block.hash
    THEN [blocks |-> bs, tip |-> t, update |-> "Reorg"]
    ELSE IF block.hash = None
    THEN [blocks |-> bs, tip |-> t, update |-> "MissingBlockHash"]
    ELSE [blocks |-> Append(bs, block), tip |-> block.hash, update |-> "Added"]

\* add_block pushing the block before it looks at the hash.
add_block_push_before_hash_check(bs, t, block) ==
    IF t # None /\ t # block.parent_hash
    THEN [blocks |-> bs, tip |-> t, update |-> "Reorg"]
    ELSE IF block.hash = None
    THEN [blocks |-> Append(bs, block), tip |-> t, update |-> "MissingBlockHash"]
    ELSE [blocks |-> Append(bs, block), tip |-> block.hash, update |-> "Added"]

\* add_block forgetting the tip when it reports a reorg.
add_block_reorg_drops_tip(bs, t, block) ==
    IF t # None /\ t # block.parent_hash
    THEN [blocks |-> bs, tip |-> None, update |-> "Reorg"]
    ELSE IF block.hash = None
    THEN [blocks |-> bs, tip |-> t, update |-> "MissingBlockHash"]
    ELSE [blocks |-> Append(bs, block), tip |-> block.hash, update |-> "Added"]

\* State::add_block as a function of the State it is called on; the result is
\* the State afterwards and the BlockUpdate returned.
add_block(bs, t, block) ==
    IF t # None /\ t # block.parent_hash
    THEN [blocks |-> bs, tip |-> t, update |-> "Reorg"]
    ELSE IF block.hash = None
    THEN [blocks |-> bs, tip |-> t, update |-> "MissingBlockHash"]
    ELSE [blocks |-> Append(bs, block), tip |-> block.hash, update |-> "Added"]

\* clear forgetting the tip.
clear_keeps_blocks(bs, t) == [blocks |-> bs, tip |-> None]

clear_keeps_tip(bs, t) == [blocks |-> <<>>, tip |-> t]

\* State::clear.
clear(bs, t) == [blocks |-> <<>>, tip |-> None]

\* State::new / State::default.
StateNew == [blocks |-> <<>>, tip |-> None]


\* ------------------------------------------- callers of the State methods
\* The blocks a caller may hand to add_block: any hash or none, any parent hash.
\* add_block does not read the number; the n-th block offered is numbered n.
OfferedBlocks(n) == { L2Block(n, h, p) : h \in Hashes \cup {None}, p \in Hashes }

\* state.add_block(block)
AddBlock(block) ==
    /\ Len(pushed) < MaxPush
    /\ LET r == add_block(blocks, tip, block) IN
         /\ blocks' = r.blocks
         /\ tip' = r.tip
         /\ updates' = Append(updates, r.update)
    /\ pushed' = Append(pushed, block)
    /\ last_op' = [op |-> "add_block", dropped |-> 0]

\* state.clear()
Clear ==
    /\ LET r == clear(blocks, tip) IN
         /\ blocks' = r.blocks
         /\ tip' = r.tip
    /\ pushed' = <<>>
    /\ updates' = <<>>
    /\ last_op' = [op |-> "clear", dropped |-> Len(blocks)]

\* ----------------------------------- the rollup node and the L2 node (environment)
\* optimism_syncStatus answers with head_l1 == 0 until the node is synced; any
\* other head_l1 is read the same way by process_blocks.
HeadL1Synced == 100

\* The SyncStatus fields process_blocks reads.  The rollup node reports
\* safe_l2 <= unsafe_l2, and no block the L2 node does not have yet.
AllSyncStatuses ==
    { [head_l1 |-> h, safe_l2 |-> s, unsafe_l2 |-> u] :
        h \in {0, HeadL1Synced}, s \in 0..l2_head, u \in 0..l2_head }
SyncStatuses == { st \in AllSyncStatuses : st.safe_l2 <= st.unsafe_l2 }

\* The hash of block n on the L2 node's current chain: a reorg at reorg_at
\* replaces block reorg_at and every block above it.
HashOf(n) == 2 * n + (IF reorg_at # None /\ n >= reorg_at THEN 1 ELSE 0)

\* The L2 node produces a block.
L2Advance ==
    /\ l2_head < MaxL2
    /\ l2_head' = l2_head + 1
    /\ UNCHANGED reorg_at

\* The L2 chain reorgs (once): blocks k..l2_head are replaced.
L2Reorg ==
    /\ reorg_at = None
    /\ \E k \in 1..l2_head : reorg_at' = k
    /\ UNCHANGED l2_head

\* ------------------------------ ChannelManager::process_blocks (channels.rs)
\* What is known of the current iteration: whether it started from a cold
\* State (nothing stored, last_stored_block_number == 0), the safe_l2 and
\* unsafe_l2 its SyncStatus carried, and whether every fetch of a block the L2
\* node has returned that block, complete, and add_block stored it; the
\* block numbers whose fetch failed; and those among them of blocks the L2 node
\* has, which it did not return or returned incomplete.
NoCycle == [cold |-> FALSE, clean |-> TRUE, failed |-> {}, lost |-> {}]

\* What the last sync_status call of this iteration returned: nothing yet, an
\* error, or a SyncStatus.
NoSync == [kind |-> "None", head_l1 |-> None, safe_l2 |-> None, unsafe_l2 |-> None]
SyncErr == [kind |-> "Err", head_l1 |-> None, safe_l2 |-> None, unsafe_l2 |-> None]
SyncOk(status) ==
    [kind |-> "Ok", head_l1 |-> status.head_l1, safe_l2 |-> status.safe_l2,
     unsafe_l2 |-> status.unsafe_l2]

\* The head_l1 check left out.
not_synced_unchecked(status) == FALSE

\* `if sync_status.head_l1 == 0 { continue }`
not_synced(status) == status.head_l1 = 0

\* The snap of last_stored_block_number to safe_l2.
snap(lsbn, status) ==
    IF lsbn = 0 \/ lsbn < status.safe_l2 THEN status.safe_l2 ELSE lsbn

\* The last block number of `(start_block + 1)..=(end_block + 1)`.
range_end(e) == e + 1

\* (history) No sleep and no poll yet; a poll has just been made.
NoSleeps == [since_poll |-> 0, polled |-> FALSE]
Polled == [since_poll |-> 0, polled |-> TRUE]

sleep_always(first, sleeps) == [sleeps EXCEPT !.since_poll = @ + 1]

\* `if !first_iter { std::thread::sleep(polling_interval); }`
sleep_unless_first(first, sleeps) ==
    IF ~first THEN [sleeps EXCEPT !.since_poll = @ + 1] ELSE sleeps

\* Top of the loop: sleep unless this is the first iteration.
PB_LoopTop ==
    /\ pb_pc = "top"
    /\ pb_sleeps' = sleep_unless_first(first_iter, pb_sleeps)
    /\ first_iter' = FALSE
    /\ pb_pc' = "sync"
    /\ sync_result' = NoSync
    /\ last_update' = "None"
    /\ fetched' = <<>>
    /\ cycle' = NoCycle
    /\ UNCHANGED <<last_stored_block_number, start_block, end_block, block_number>>
    /\ UNCHANGED <<stateVars, l2Vars>>

PB_SyncErr_returns ==
    /\ pb_pc = "sync"
    /\ sync_result' = SyncErr
    /\ pb_pc' = "returned"
    /\ pb_sleeps' = Polled
    /\ UNCHANGED <<first_iter, last_stored_block_number, start_block, end_block,
                   block_number, last_update, fetched, cycle>>
    /\ UNCHANGED <<stateVars, l2Vars>>

\* rollup_node.sync_status() fails: log and continue.
PB_SyncErr ==
    /\ pb_pc = "sync"
    /\ sync_result' = SyncErr
    /\ pb_pc' = "top"
    /\ pb_sleeps' = Polled
    /\ UNCHANGED <<first_iter, last_stored_block_number, start_block, end_block,
                   block_number, last_update, fetched, cycle>>
    /\ UNCHANGED <<stateVars, l2Vars>>

\* sync_status() answers; the range of blocks to process is computed, or the
\* iteration ends because the rollup node is not synced.
PB_SyncOk(status) ==
    /\ pb_pc = "sync"
    /\ sync_result' = SyncOk(status)
    /\ IF not_synced(status)
       THEN /\ pb_pc' = "top"
            /\ UNCHANGED <<last_stored_block_number, start_block, end_block,
                           block_number, cycle>>
       ELSE /\ last_stored_block_number' = snap(last_stored_block_number, status)
            /\ start_block' = last_stored_block_number'
            /\ end_block' = status.unsafe_l2
            /\ block_number' = start_block' + 1
            /\ cycle' = [cold |-> last_stored_block_number = 0 /\ blocks = <<>>,
                         clean |-> TRUE, failed |-> {}, lost |-> {}]
            /\ pb_pc' = "for"
    /\ pb_sleeps' = Polled
    /\ UNCHANGED <<first_iter, last_update, fetched>>
    /\ UNCHANGED <<stateVars, l2Vars>>

\* The for loop is over: back to the top of the loop.
PB_ForDone ==
    /\ pb_pc = "for"
    /\ block_number > range_end(end_block)
    /\ pb_pc' = "top"
    /\ last_update' = "None"
    /\ UNCHANGED <<first_iter, last_stored_block_number, start_block, end_block,
                   block_number, sync_result, fetched, cycle, pb_sleeps>>
    /\ UNCHANGED <<stateVars, l2Vars>>

PB_FetchFail_breaks ==
    /\ pb_pc = "for"
    /\ block_number <= range_end(end_block)
    /\ fetched' = Append(fetched, block_number)
    /\ cycle' = [cycle EXCEPT !.clean = @ /\ block_number > l2_head,
                              !.failed = @ \cup {block_number},
                              !.lost = @ \cup ({block_number} \cap (1..l2_head))]
    /\ pb_pc' = "top"
    /\ last_update' = "None"
    /\ UNCHANGED <<block_number, first_iter, pb_sleeps, last_stored_block_number, start_block,
                   end_block, sync_result>>
    /\ UNCHANGED <<stateVars, l2Vars>>

\* get_block_with_txs(block_number) is an error or Ok(None): log and continue
\* with the next number.  A block the node does not have is always Ok(None).
PB_FetchFail ==
    /\ pb_pc = "for"
    /\ block_number <= range_end(end_block)
    /\ fetched' = Append(fetched, block_number)
    /\ cycle' = [cycle EXCEPT !.clean = @ /\ block_number > l2_head,
                              !.failed = @ \cup {block_number},
                              !.lost = @ \cup ({block_number} \cap (1..l2_head))]
    /\ block_number' = block_number + 1
    /\ last_update' = "None"
    /\ UNCHANGED <<pb_pc, first_iter, pb_sleeps, last_stored_block_number, start_block,
                   end_block, sync_result>>
    /\ UNCHANGED <<stateVars, l2Vars>>

\* The blocks the L2 node may answer a request for block n with: the block of
\* its chain, possibly with the number or the hash missing (a pending block).
FetchedBlocks(n) ==
    { L2Block(num, h, HashOf(n - 1)) : num \in {n, None}, h \in {HashOf(n), None} }

\* get_block_with_txs(block_number) is Ok(Some(block)) and block.number is None:
\* log and continue.
PB_FetchNoNumber ==
    /\ pb_pc = "for"
    /\ block_number <= range_end(end_block)
    /\ block_number <= l2_head
    /\ \E block \in FetchedBlocks(block_number) : block.number = None
    /\ fetched' = Append(fetched, block_number)
    /\ cycle' = [cycle EXCEPT !.clean = FALSE, !.failed = @ \cup {block_number},
                              !.lost = @ \cup {block_number}]
    /\ block_number' = block_number + 1
    /\ last_update' = "None"
    /\ UNCHANGED <<pb_pc, first_iter, pb_sleeps, last_stored_block_number, start_block,
                   end_block, sync_result>>
    /\ UNCHANGED <<stateVars, l2Vars>>

\* get_block_with_txs(block_number) is Ok(Some(block)) with a number:
\* last_stored_block_number = num; s.add_block(block).  The BlockUpdate that
\* add_block returns is dropped.
PB_FetchOk(block) ==
    /\ pb_pc = "for"
    /\ block_number <= range_end(end_block)
    /\ block_number <= l2_head
    /\ block.number # None
    /\ last_stored_block_number' = block.number
    /\ LET r == add_block(blocks, tip, block) IN
         /\ blocks' = r.blocks
         /\ tip' = r.tip
         /\ last_update' = r.update
         /\ cycle' = [cycle EXCEPT !.clean = @ /\ r.update = "Added",
                                   !.lost = IF block.hash = None
                                            THEN @ \cup {block_number} ELSE @]
    /\ fetched' = Append(fetched, block_number)
    /\ block_number' = block_number + 1
    /\ UNCHANGED <<pb_pc, first_iter, pb_sleeps, start_block, end_block, sync_result>>
    /\ UNCHANGED l2Vars

\* ------------------------------------------------- std::sync::mpsc channels
\* The channels, named after the statement that creates them.
ChanIds ==
    { "build_bytes",     \* transactions.rs: Stage::build, channel::<Bytes>
      "build_receipts",  \* transactions.rs: Stage::build, channel::<TransactionReceipt>
      "driver_blocks",   \* client.rs: spawn_driver, channel::<BlockId>
      "cm_bytes",        \* client.rs: spawn_channel_manager, channel::<Bytes>
      "cm_blocks",       \* client.rs: spawn_channel_manager, channel::<BlockId>
      "tm_receipts",     \* client.rs: spawn_transaction_manager, channel::<TransactionReceipt>
      "tm_bytes",        \* client.rs: spawn_transaction_manager, channel::<Bytes>
      "user_blocks",     \* made by the embedding program for ChannelManager::receive_blocks
      "user_bytes",      \* made by the embedding program for TransactionManager::receive_bytes / with_receiver
      "user_driver_blocks", \* made by the embedding program for Driver::new / with_channel
      "user_receipts" }  \* made by the embedding program for TransactionManager::with_sender

\* Option::None for a channel end.
NoChan == "none"

\* A channel nobody has created yet, and one just created by mpsc::channel().
Unmade == [queue |-> <<>>, senders |-> 0, receiver |-> FALSE]
Fresh == [queue |-> <<>>, senders |-> 1, receiver |-> TRUE]

\* Dropping a Sender / the Receiver of channel id (nothing for NoChan).
DropSender(c, id) ==
    IF id = NoChan THEN c ELSE [c EXCEPT ![id].senders = @ - 1]
DropReceiver(c, id) ==
    IF id = NoChan THEN c ELSE [c EXCEPT ![id].receiver = FALSE, ![id].queue = <<>>]

\* Sender::send succeeds exactly while the Receiver lives.
CanSend(c, id) == c[id].receiver
Enqueue(c, id, m) == [c EXCEPT ![id].queue = Append(@, m)]

\* Receiver::recv: a message when one is queued; Err(RecvError) when none is
\* and every Sender is gone; otherwise the caller stays blocked.
CanRecv(c, id) == c[id].queue # <<>>
Disconnected(c, id) == c[id].queue = <<>> /\ c[id].senders = 0
Dequeue(c, id) == [c EXCEPT ![id].queue = Tail(@)]

\* ------------------------------------------------------------ L1 accounts
\* A private key, by where it comes from: the configuration, or the n-th draw
\* of rand::thread_rng().
PrivateKey(origin, draw) == [origin |-> origin, draw |-> draw]

\* The sender private key of the configuration, and the account it controls,
\* which is the configured sender address.
SenderPrivateKey == PrivateKey("config", 0)
SenderAddress == [of |-> SenderPrivateKey]

\* LocalWallet::new(&mut rand::thread_rng()): a wallet with a new random key.
LocalWallet_new(draw) == [key |-> PrivateKey("thread_rng", draw)]

\* The account a wallet signs for.
address(wallet) == [of |-> wallet.key]

\* No transaction: execute holds no built_transaction.
NoTx == [chain_id |-> NoChan, to |-> NoChan, data |-> NoChan, value |-> None, nonce |-> None]

\* No wallet: the task is not spawned.
NoWallet == [key |-> PrivateKey("none", 0)]

\* The wallet TransactionManager::execute makes before its loop.
RandomWallet == LocalWallet_new(0)

Accounts == {SenderAddress} \cup {address(LocalWallet_new(d)) : d \in 0..(MaxFeed + 1)}

\* eth_sendRawTransaction: the node refuses a transaction whose nonce is below
\* its signer's transaction count (nonce too low).
NodeAccepts(count, signer, tx) == tx.nonce >= count[signer]

\* A block includes the pending transaction of an account whose nonce is the
\* account's transaction count, and the count moves on by one.
NodeMines(count, signer, tx) == tx.nonce = count[signer]
Mined(count, signer) == [count EXCEPT ![signer] = @ + 1]

InitChain == l1_count = [a \in Accounts |-> 0]

\* Other software sends a transaction from the sender address and it is mined.
L1_SenderTx ==
    /\ l1_count[SenderAddress] < MaxSenderTxs
    /\ l1_count' = Mined(l1_count, SenderAddress)
    /\ UNCHANGED <<pipeVars, pipeHist>>

\* ------------------------------------- values of Driver::execute (driver.rs)
\* The headers the L1 node may answer get_block(Latest) with, as far as the
\* Driver reads them: hash and number, each possibly absent.
L1Tips == { [hash |-> h, number |-> n] : h \in {None, 1}, n \in {None, 7} }

\* BlockId::from(hash) / BlockId::from(number).
BlockIdHash(h) == [kind |-> "Hash", value |-> h]
BlockIdNumber(n) == [kind |-> "Number", value |-> n]

\* What get_block(Latest) returned: Err(e), Ok(None), or Ok(Some(header)).
PollErr == [result |-> "Err", hash |-> None, number |-> None]
PollNone == [result |-> "OkNone", hash |-> None, number |-> None]
PollSome(l1_tip) == [result |-> "OkSome", hash |-> l1_tip.hash, number |-> l1_tip.number]
NoPoll == [result |-> "none", hash |-> None, number |-> None]

\* No BlockId can be constructed: the header has neither hash nor number.
NoBlockId == [kind |-> "none", value |-> None]

derive_block_id_number_first(l1_tip) ==
    IF l1_tip.number # None THEN BlockIdNumber(l1_tip.number)
    ELSE IF l1_tip.hash # None THEN BlockIdHash(l1_tip.hash)
    ELSE NoBlockId

\* `let block_id = if let Some(h) = l1_tip.hash {..} else if let Some(n) =
\* l1_tip.number {..} else { continue }`.
derive_block_id(l1_tip) ==
    IF l1_tip.hash # None THEN BlockIdHash(l1_tip.hash)
    ELSE IF l1_tip.number # None THEN BlockIdNumber(l1_tip.number)
    ELSE NoBlockId

\* ------------------------------------------------ Archon::start (client.rs)
\* PipelineBuilder::new(self).channel(..).channel(..).channel(TransactionManager
\* ::default()).build(): only the TransactionManager stage reaches the Archon.
\* Its build makes two channels, keeps a clone of the Bytes sender in
\* archon.tx_manager_sender, gives the other ends to a TransactionManager that
\* is local to build (dropped on return), and returns the receipt receiver.
\* The input receivers that channel() makes have no sender and are dropped
\* with that local TransactionManager.
Start_BuildPipeline ==
    /\ start_pc = "build"
    /\ chan' = [chan EXCEPT
                  !["build_bytes"] = [Fresh EXCEPT !.receiver = FALSE],
                  !["build_receipts"] = [Fresh EXCEPT !.senders = 0]]
    /\ archon' = [archon EXCEPT !.tx_manager_sender = "build_bytes",
                                !.receipt_recv = "build_receipts"]
    /\ start_pc' = "spawn_driver"
    /\ UNCHANGED <<driver, cm, tm, user, pipeHist>>
    /\ UNCHANGED l1_count

\* self.spawn_driver(): a new BlockId channel; the receiver stays in
\* archon.driver_receiver, the sender goes to the Driver, which is spawned.
Start_SpawnDriver ==
    /\ start_pc = "spawn_driver"
    /\ chan' = [chan EXCEPT !["driver_blocks"] = Fresh]
    /\ archon' = [archon EXCEPT !.driver_receiver = "driver_blocks"]
    /\ driver' = [pc |-> "top", sender |-> "driver_blocks", polled |-> NoPoll,
                  first_iter |-> TRUE, sleeps |-> 0, result |-> "running"]
    /\ start_pc' = "spawn_channel_manager"
    /\ UNCHANGED <<cm, tm, user, pipeHist>>
    /\ UNCHANGED l1_count

\* self.spawn_channel_manager(): a Bytes channel whose receiver is dropped at
\* once (`let (cm_sender, _) = ..`), a BlockId channel whose sender stays in
\* archon.channel_manager_sender; the preset ChannelManager (or a default one)
\* gets cm_sender and cm_receiver, keeps its block_recv, and is spawned.  The
\* block processor spawned here is process_blocks (IngestSpec); it shares
\* nothing with the tasks of this specification.
Start_SpawnChannelManager ==
    /\ start_pc = "spawn_channel_manager"
    /\ chan' = [chan EXCEPT !["cm_bytes"] = [Fresh EXCEPT !.receiver = FALSE],
                            !["cm_blocks"] = Fresh]
    /\ archon' = [archon EXCEPT !.channel_manager_sender = "cm_blocks",
                                !.channel_manager = NoChan]
    /\ cm' = [pc |-> "recv", receiver |-> "cm_blocks", sender |-> "cm_bytes",
              block_recv |-> archon.channel_manager, block_id |-> NoChan,
              pending_txs |-> {}, result |-> "running"]
    /\ start_pc' = "spawn_transaction_manager"
    /\ UNCHANGED <<driver, tm, user, pipeHist>>
    /\ UNCHANGED l1_count

\* self.spawn_transaction_manager(): a receipt channel whose receiver stays in
\* archon.tx_manager_receiver, a Bytes channel whose sender replaces (drops)
\* archon.tx_manager_sender; the preset TransactionManager (or one built from
\* the config) gets the other ends, keeps its bytes_receiver, and is spawned.
Start_SpawnTransactionManager ==
    /\ start_pc = "spawn_transaction_manager"
    /\ chan' = [DropSender(chan, archon.tx_manager_sender) EXCEPT
                  !["tm_receipts"] = Fresh, !["tm_bytes"] = Fresh]
    /\ archon' = [archon EXCEPT !.tx_manager_sender = "tm_bytes",
                                !.tx_manager_receiver = "tm_receipts",
                                !.tx_manager = NoChan]
    /\ tm' = [pc |-> "recv", receiver |-> "tm_bytes", sender |-> "tm_receipts",
              bytes_receiver |-> archon.tx_manager, tx_bytes |-> NoChan,
              tx |-> NoTx, confirmations |-> 0, submitted |-> <<>>,
              wallet |-> RandomWallet, in_flight |-> 0, send_result |-> "none",
              result |-> "running"]
    /\ start_pc' = "receipts"
    /\ UNCHANGED <<driver, cm, user, pipeHist>>
    /\ UNCHANGED l1_count

\* `for receipt in receipt_recv { log }`: one turn of the iterator.  A queued
\* receipt is logged; the iterator ends when the channel is empty and has no
\* sender left, and start goes on to serve_metrics; otherwise it blocks.
Start_ReceiptLoop ==
    /\ start_pc = "receipts"
    /\ IF CanRecv(chan, archon.receipt_recv)
       THEN /\ receipts_logged' =
                  Append(receipts_logged, Head(chan[archon.receipt_recv].queue))
            /\ chan' = Dequeue(chan, archon.receipt_recv)
            /\ UNCHANGED <<start_pc, archon>>
       ELSE /\ Disconnected(chan, archon.receipt_recv)
            /\ chan' = DropReceiver(chan, archon.receipt_recv)
            /\ archon' = [archon EXCEPT !.receipt_recv = NoChan]
            /\ start_pc' = "metrics"
            /\ UNCHANGED receipts_logged
    /\ UNCHANGED <<driver, cm, tm, user>>
    /\ UNCHANGED <<emitted, cm_received, frames_sent, tm_received, receipts_sent>>
    /\ UNCHANGED l1_count

\* self.serve_metrics().await?: Metrics::serve loops over incoming connections
\* for ever unless the bind or a connection's read fails; then start returns
\* the error.
Start_MetricsFail ==
    /\ start_pc = "metrics"
    /\ start_pc' = "returned"
    /\ UNCHANGED <<archon, chan, driver, cm, tm, user, pipeHist>>
    /\ UNCHANGED l1_count

\* ------------------------------------------------ Driver::execute (driver.rs)
\* Top of the loop: sleep unless this is the first iteration.
D_LoopTop ==
    /\ driver.pc = "top"
    /\ driver' = [driver EXCEPT !.pc = "poll", !.first_iter = FALSE,
                                !.sleeps = IF ~driver.first_iter THEN @ + 1 ELSE @]
    /\ UNCHANGED <<start_pc, archon, chan, cm, tm, user, pipeHist>>
    /\ UNCHANGED l1_count

\* get_block(Latest) is Ok(None) or Err: warn and continue.
D_PollFail ==
    /\ driver.pc = "poll"
    /\ \E polled \in {PollErr, PollNone} :
         driver' = [driver EXCEPT !.pc = "top", !.polled = polled, !.sleeps = 0]
    /\ UNCHANGED <<start_pc, archon, chan, cm, tm, user, pipeHist>>
    /\ UNCHANGED l1_count

\* get_block(Latest) is Ok(Some(l1_tip)): derive the BlockId (the hash, else
\* the number, else warn and continue) and send it; a failed send is only
\* logged.
D_Poll(l1_tip) ==
    /\ driver.pc = "poll"
    /\ driver' = [driver EXCEPT !.pc = "top", !.polled = PollSome(l1_tip), !.sleeps = 0]
    /\ IF derive_block_id(l1_tip) = NoBlockId
       THEN UNCHANGED <<chan, emitted>>
       ELSE /\ Len(emitted) < MaxEmit
            /\ emitted' = Append(emitted, derive_block_id(l1_tip))
            /\ chan' = IF CanSend(chan, driver.sender)
                       THEN Enqueue(chan, driver.sender, derive_block_id(l1_tip))
                       ELSE chan
    /\ UNCHANGED <<start_pc, archon, cm, tm, user>>
    /\ UNCHANGED <<cm_received, frames_sent, tm_received, receipts_sent, receipts_logged>>
    /\ UNCHANGED l1_count

\* ---------------------------------------- ChannelManager::execute (channels.rs)
\* The task returns: its channel ends are dropped.
CM_Exit(c, result) ==
    /\ cm' = [cm EXCEPT !.pc = "exited", !.result = result, !.receiver = NoChan,
                        !.sender = NoChan, !.block_recv = NoChan]
    /\ chan' = DropSender(DropReceiver(DropReceiver(c, cm.block_recv), cm.receiver),
                          cm.sender)

\* The receiver execute reads: block_recv when set, else receiver.
CM_Source == IF cm.block_recv # NoChan THEN cm.block_recv ELSE cm.receiver

\* recv() of the next BlockId; Err(RecvError) becomes ChannelClosed and ends
\* the task.
CM_Recv ==
    /\ cm.pc = "recv"
    /\ IF CanRecv(chan, CM_Source)
       THEN /\ cm' = [cm EXCEPT !.pc = "tx_data", !.block_id = Head(chan[CM_Source].queue)]
            /\ chan' = Dequeue(chan, CM_Source)
            /\ cm_received' = Append(cm_received, Head(chan[CM_Source].queue))
       ELSE /\ Disconnected(chan, CM_Source)
            /\ CM_Exit(chan, "ChannelClosed")
            /\ UNCHANGED cm_received
    /\ UNCHANGED <<start_pc, archon, driver, tm, user>>
    /\ UNCHANGED <<emitted, frames_sent, tm_received, receipts_sent, receipts_logged>>
    /\ UNCHANGED l1_count

\* ChannelManager::tx_data: `Err(ChannelManagerError::NotImplemented.into())`.
tx_data(block_id) ==
    [ok |-> FALSE, err |-> "NotImplemented", bytes |-> <<>>, tx_id |-> <<"0:0", 0>>]

\* The rest of the loop body: tx_data(block_id)?, then send the bytes (a
\* failed send ends the task) and record them in pending_txs.
CM_TxData ==
    /\ cm.pc = "tx_data"
    /\ LET r == tx_data(cm.block_id) IN
         IF ~r.ok
         THEN /\ CM_Exit(chan, r.err)
              /\ UNCHANGED frames_sent
         ELSE IF ~CanSend(chan, cm.sender)
         THEN /\ CM_Exit(chan, "SendError")
              /\ UNCHANGED frames_sent
         ELSE /\ chan' = Enqueue(chan, cm.sender, r.bytes)
              /\ frames_sent' = Append(frames_sent, r.bytes)
              /\ cm' = [cm EXCEPT !.pc = "recv", !.block_id = NoChan,
                                  !.pending_txs = @ \cup {<<r.tx_id, r.bytes>>}]
    /\ UNCHANGED <<start_pc, archon, driver, tm, user>>
    /\ UNCHANGED <<emitted, cm_received, tm_received, receipts_sent, receipts_logged>>
    /\ UNCHANGED l1_count

\* ------------------------------- TransactionManager::execute (transactions.rs)
\* The task returns: its channel ends are dropped.
\* (history) send_transaction returns send_result to execute: when it had
\* broadcast, its transaction is in flight no longer and has that outcome.
Returned(t, send_result) ==
    [t EXCEPT !.send_result = send_result,
              !.in_flight = IF t.pc = "confirm" THEN @ - 1 ELSE @,
              !.submitted = IF t.pc = "confirm"
                            THEN [@ EXCEPT ![Len(@)].result = send_result]
                            ELSE @]

\* execute returns `result`, t being its last state: the task ends and drops
\* its channel ends.
TM_Exit(c, t, result) ==
    /\ tm' = [t EXCEPT !.pc = "exited", !.result = result, !.receiver = NoChan,
                       !.sender = NoChan, !.bytes_receiver = NoChan,
                       !.tx_bytes = NoChan, !.tx = NoTx, !.confirmations = 0]
    /\ chan' = DropSender(DropReceiver(DropReceiver(c, tm.bytes_receiver), tm.receiver),
                          tm.sender)

\* The receiver execute reads: bytes_receiver when set, else receiver.
TM_Source == IF tm.bytes_receiver # NoChan THEN tm.bytes_receiver ELSE tm.receiver

TM_Recv_exits_ok ==
    /\ tm.pc = "recv"
    /\ IF CanRecv(chan, TM_Source)
       THEN /\ tm' = [tm EXCEPT !.pc = "craft", !.tx_bytes = Head(chan[TM_Source].queue),
                                !.send_result = "none"]
            /\ chan' = Dequeue(chan, TM_Source)
            /\ tm_received' = Append(tm_received, Head(chan[TM_Source].queue))
       ELSE /\ Disconnected(chan, TM_Source)
            /\ TM_Exit(chan, tm, "Ok")
            /\ UNCHANGED tm_received
    /\ UNCHANGED <<start_pc, archon, driver, cm, user>>
    /\ UNCHANGED <<emitted, cm_received, frames_sent, receipts_sent, receipts_logged>>
    /\ UNCHANGED l1_count

\* recv() of the next frame; Err(RecvError) becomes ChannelClosed and ends the
\* task.
TM_Recv ==
    /\ tm.pc = "recv"
    /\ IF CanRecv(chan, TM_Source)
       THEN /\ tm' = [tm EXCEPT !.pc = "craft", !.tx_bytes = Head(chan[TM_Source].queue),
                                !.send_result = "none"]
            /\ chan' = Dequeue(chan, TM_Source)
            /\ tm_received' = Append(tm_received, Head(chan[TM_Source].queue))
       ELSE /\ Disconnected(chan, TM_Source)
            /\ TM_Exit(chan, tm, "ChannelClosed")
            /\ UNCHANGED tm_received
    /\ UNCHANGED <<start_pc, archon, driver, cm, user>>
    /\ UNCHANGED <<emitted, cm_received, frames_sent, receipts_sent, receipts_logged>>
    /\ UNCHANGED l1_count

\* provider.get_transaction_count(sender, None): the number of transactions
\* the account has had mined, which is the nonce of its next transaction.
get_transaction_count(count, account) == count[account]

craft_transaction_to_sender(l1_chain_id, l1_batch_inbox_address, sender, count, bytes) ==
    [chain_id |-> l1_chain_id, to |-> "sender_address", data |-> bytes, value |-> None,
     nonce |-> get_transaction_count(count, sender)]

\* TransactionManager::craft_transaction, when both queries succeed:
\* TransactionRequest::new() with chain_id, to, data, gas_price and nonce set,
\* the nonce being the transaction count of `sender`; value is left unset, so
\* the transaction transfers nothing.
craft_transaction(l1_chain_id, l1_batch_inbox_address, sender, count, bytes) ==
    [chain_id |-> l1_chain_id, to |-> l1_batch_inbox_address, data |-> bytes,
     value |-> None, nonce |-> get_transaction_count(count, sender)]

\* craft_transaction fails (the nonce or the gas price query): log and
\* continue with the next frame.
TM_CraftFail ==
    /\ tm.pc = "craft"
    /\ tm' = [tm EXCEPT !.pc = "recv", !.tx_bytes = NoChan]
    /\ UNCHANGED <<start_pc, archon, chan, driver, cm, user, pipeHist>>
    /\ UNCHANGED l1_count

\* craft_transaction succeeds; execute passes it its sender_address.
TM_Craft ==
    /\ tm.pc = "craft"
    /\ tm' = [tm EXCEPT !.pc = "send",
                        !.tx = craft_transaction("l1_chain_id", "l1_batch_inbox_address",
                                                 SenderAddress, l1_count, tm.tx_bytes)]
    /\ UNCHANGED <<start_pc, archon, chan, driver, cm, user, pipeHist>>
    /\ UNCHANGED l1_count

TM_SendFail_continues ==
    /\ tm.pc \in {"send", "confirm"}
    /\ \E err \in (IF tm.pc = "send"
                   THEN {"SendTransaction"}
                   ELSE {"PendingTransaction", "TransactionReceiptNotFound"}) :
         tm' = [Returned(tm, err) EXCEPT !.pc = "recv", !.tx_bytes = NoChan,
                                         !.tx = NoTx, !.confirmations = 0]
    /\ UNCHANGED <<start_pc, archon, chan, driver, cm, user, pipeHist>>
    /\ UNCHANGED l1_count

\* send_transaction(..).await? fails (the broadcast, the wait for the
\* confirmations, or TransactionReceiptNotFound): the task returns the error.
TM_SendFail ==
    /\ tm.pc \in {"send", "confirm"}
    /\ \E err \in (IF tm.pc = "send"
                   THEN {"SendTransaction"}
                   ELSE {"PendingTransaction", "TransactionReceiptNotFound"}) :
         TM_Exit(chan, Returned(tm, err), err)
    /\ UNCHANGED <<start_pc, archon, driver, cm, user, pipeHist>>
    /\ UNCHANGED l1_count

send_wallet_redrawn(wallet, n) == LocalWallet_new(n)

\* The wallet send_transaction is given for the n-th broadcast: wallet.clone()
\* of the one wallet made before the loop.
send_wallet(wallet, n) == wallet

TM_Broadcast_no_wait ==
    /\ tm.pc = "send"
    /\ NodeAccepts(l1_count, address(send_wallet(tm.wallet, Len(tm.submitted) + 1)), tm.tx)
    /\ tm' = [tm EXCEPT !.pc = "recv", !.confirmations = 0,
                        !.in_flight = @ + 1,
                        !.submitted = Append(@, [frame |-> Len(tm_received), tx |-> tm.tx,
                                                 signer |-> address(send_wallet(tm.wallet,
                                                                Len(tm.submitted) + 1)),
                                                 result |-> "pending"])]
    /\ UNCHANGED <<start_pc, archon, chan, driver, cm, user, pipeHist>>
    /\ UNCHANGED l1_count

\* send_transaction: SignerMiddleware::new(provider, wallet) signs the
\* transaction with the wallet and client.send_transaction(tx, None) broadcasts
\* it, which succeeds when the node takes it; it is now pending with no
\* confirmation.
TM_Broadcast ==
    /\ tm.pc = "send"
    /\ NodeAccepts(l1_count, address(send_wallet(tm.wallet, Len(tm.submitted) + 1)), tm.tx)
    /\ tm' = [tm EXCEPT !.pc = "confirm", !.confirmations = 0,
                        !.in_flight = @ + 1,
                        !.submitted = Append(@, [frame |-> Len(tm_received), tx |-> tm.tx,
                                                 signer |-> address(send_wallet(tm.wallet,
                                                                Len(tm.submitted) + 1)),
                                                 result |-> "pending"])]
    /\ UNCHANGED <<start_pc, archon, chan, driver, cm, user, pipeHist>>
    /\ UNCHANGED l1_count

\* pending_tx.confirmations(6).await: one more block confirms the transaction;
\* the first of them is the block that includes it.
TM_Confirm ==
    /\ tm.pc = "confirm"
    /\ tm.confirmations < Confirmations
    /\ LET pending == tm.submitted[Len(tm.submitted)] IN
         IF tm.confirmations = 0
         THEN /\ NodeMines(l1_count, pending.signer, pending.tx)
              /\ l1_count' = Mined(l1_count, pending.signer)
              /\ tm' = [tm EXCEPT !.confirmations = @ + 1]
         ELSE /\ tm' = [tm EXCEPT !.confirmations = @ + 1]
              /\ UNCHANGED l1_count
    /\ UNCHANGED <<start_pc, archon, chan, driver, cm, user, pipeHist>>

\* send_transaction returns the receipt once the confirmations are reached;
\* sender.send(receipt)? passes it on (a failed send ends the task).
TM_SendOk ==
    /\ tm.pc = "confirm"
    /\ tm.confirmations = Confirmations
    /\ LET receipt == [tx |-> tm.tx, confirmations |-> tm.confirmations] IN
         IF CanSend(chan, tm.sender)
         THEN /\ chan' = Enqueue(chan, tm.sender, receipt)
              /\ receipts_sent' = Append(receipts_sent, receipt)
              /\ tm' = [Returned(tm, "Ok") EXCEPT !.pc = "recv", !.tx_bytes = NoChan,
                                                  !.tx = NoTx, !.confirmations = 0]
         ELSE /\ TM_Exit(chan, Returned(tm, "Ok"), "SendError")
              /\ UNCHANGED receipts_sent
    /\ UNCHANGED <<start_pc, archon, driver, cm, user>>
    /\ UNCHANGED <<emitted, cm_received, frames_sent, tm_received, receipts_logged>>
    /\ UNCHANGED l1_count

\* ----------------------------------- TransactionManager::spawn (transactions.rs)
\* The Option fields of a TransactionManager that spawn requires.
TxManagerFields ==
    {"receiver", "sender", "provider", "l1_chain_id", "l1_batch_inbox_address",
     "sender_address", "sender_private_key"}

\* The configuration arguments of TransactionManager::new, each an Option.
TxManagerOptions ==
    {"l1_chain_id", "l1_batch_inbox_address", "sender_address", "sender_private_key"}

NotSpawned == [result |-> "none", spawned |-> FALSE]

spawn_without_private_key(self) ==
    IF "receiver" \notin self THEN [result |-> "MissingReceiver", spawned |-> FALSE]
    ELSE IF "sender" \notin self THEN [result |-> "MissingSender", spawned |-> FALSE]
    ELSE IF "provider" \notin self THEN [result |-> "MissingProvider", spawned |-> FALSE]
    ELSE IF "l1_chain_id" \notin self
    THEN [result |-> "MissingL1ChainId", spawned |-> FALSE]
    ELSE IF "l1_batch_inbox_address" \notin self
    THEN [result |-> "MissingL1BatchInboxAddress", spawned |-> FALSE]
    ELSE IF "sender_address" \notin self
    THEN [result |-> "MissingSenderAddress", spawned |-> FALSE]
    ELSE [result |-> "Ok", spawned |-> TRUE]

\* TransactionManager::spawn(self), self given by the fields that are Some:
\* each ok_or(..)? in turn returns its error, and tokio::spawn comes after
\* the last of them.
spawn(self) ==
    IF "receiver" \notin self THEN [result |-> "MissingReceiver", spawned |-> FALSE]
    ELSE IF "sender" \notin self THEN [result |-> "MissingSender", spawned |-> FALSE]
    ELSE IF "provider" \notin self THEN [result |-> "MissingProvider", spawned |-> FALSE]
    ELSE IF "l1_chain_id" \notin self
    THEN [result |-> "MissingL1ChainId", spawned |-> FALSE]
    ELSE IF "l1_batch_inbox_address" \notin self
    THEN [result |-> "MissingL1BatchInboxAddress", spawned |-> FALSE]
    ELSE IF "sender_address" \notin self
    THEN [result |-> "MissingSenderAddress", spawned |-> FALSE]
    ELSE IF "sender_private_key" \notin self
    THEN [result |-> "MissingSenderPrivateKey", spawned |-> FALSE]
    ELSE [result |-> "Ok", spawned |-> TRUE]

\* No TransactionManager value made yet.
InitBuilder == tm_builder = [pc |-> "none", self |-> {}, out |-> NotSpawned]

\* TransactionManager::default(): every field None.
TransactionManager_default ==
    /\ tm_builder.pc = "none"
    /\ tm_builder' = [tm_builder EXCEPT !.pc = "built", !.self = {}]

\* TransactionManager::new: the four options as given, provider Some, the
\* rest default.
TransactionManager_new(options) ==
    /\ tm_builder.pc = "none"
    /\ tm_builder' = [tm_builder EXCEPT !.pc = "built", !.self = options \cup {"provider"}]

\* with_sender and with_receiver set their field to Some.
TransactionManager_with_sender ==
    /\ tm_builder.pc = "built"
    /\ tm_builder' = [tm_builder EXCEPT !.self = @ \cup {"sender"}]

TransactionManager_with_receiver ==
    /\ tm_builder.pc = "built"
    /\ tm_builder' = [tm_builder EXCEPT !.self = @ \cup {"receiver"}]

\* spawn(self) consumes the value.
TransactionManager_spawn ==
    /\ tm_builder.pc = "built"
    /\ tm_builder' = [tm_builder EXCEPT !.pc = "spawn_called", !.out = spawn(tm_builder.self)]

\* ------------------------------------------------ the process (bin/archon.rs)
\* main runs Archon::new(Some(config)).start() after telemetry::init and
\* telemetry::register_shutdown.
InitLifecycle == cancelled = FALSE

\* The cancellation signal is raised (the handler telemetry::register_shutdown
\* installs); it may come at any time.  No actor's execute is given anything
\* to read it from: Driver::execute, ChannelManager::execute and
\* TransactionManager::execute take their channels, the provider and the
\* configuration only.
Cancel ==
    /\ ~cancelled
    /\ cancelled' = TRUE

\* --------------------------------------------- the spawned tasks on the runtime
\* The tasks tokio::spawn is given (driver.rs:50, channels.rs:151 and 170,
\* transactions.rs:193).  A worker thread runs one task at a time and gets
\* another only when the task's future returns Pending at an .await; a call
\* that blocks the thread (std::thread::sleep, std::sync::mpsc recv) keeps the
\* worker.
Tasks == {"driver", "process_blocks", "channel_manager", "transaction_manager"}

\* The two polling loops: Driver::execute and process_blocks.
Pollers == {"driver", "process_blocks"}

\* No runtime: nothing is spawned.
InitRuntime ==
    runtime = [workers |-> 0, task |-> [t \in Tasks |-> [pc |-> "none", sched |-> "none"]]]

\* A spawned task waits in the run queue; the polling loops start at their
\* first poll (first_iter), the other two at their recv().
Spawned(workers) ==
    [workers |-> workers,
     task |-> [t \in Tasks |->
                 [pc |-> IF t \in Pollers THEN "poll" ELSE "recv", sched |-> "queued"]]]

OnWorker(rt) == {t \in Tasks : rt.task[t].sched = "on_worker"}

\* The tasks that hold a worker thread inside a blocking call.
BlockingThread(rt) == {t \in OnWorker(rt) : rt.task[t].pc \in {"sleep", "recv"}}

\* A free worker thread takes a task from the run queue.
RT_Schedule(t) ==
    /\ runtime.task[t].sched = "queued"
    /\ Cardinality(OnWorker(runtime)) < runtime.workers
    /\ runtime' = [runtime EXCEPT !.task[t].sched = "on_worker"]

\* provider.get_block(..).await / rollup_node.sync_status().await: the request
\* is sent and the future is Pending; the task leaves its worker.
RT_Poll(t) ==
    /\ t \in Pollers
    /\ runtime.task[t].sched = "on_worker"
    /\ runtime.task[t].pc = "poll"
    /\ runtime' = [runtime EXCEPT !.task[t] = [pc |-> "await", sched |-> "parked"]]

\* The node answers: the task is woken and queued again.
RT_Reply(t) ==
    /\ runtime.task[t].sched = "parked"
    /\ runtime' = [runtime EXCEPT !.task[t] = [pc |-> "resume", sched |-> "queued"]]

\* The rest of the iteration, then `if !first_iter { std::thread::sleep(..) }`
\* at the top of the loop: the task sleeps on its worker thread.
RT_Continue(t) ==
    /\ runtime.task[t].sched = "on_worker"
    /\ runtime.task[t].pc = "resume"
    /\ runtime' = [runtime EXCEPT !.task[t].pc = "sleep"]

\* The sleep ends; the task goes on to its poll.
RT_SleepDone(t) ==
    /\ runtime.task[t].sched = "on_worker"
    /\ runtime.task[t].pc = "sleep"
    /\ runtime' = [runtime EXCEPT !.task[t].pc = "poll"]

\* ------------------------------------------- the embedding program (environment)
\* A program may preset actors with Archon::with_channel_manager and
\* with_transaction_manager before start; a preset ChannelManager may carry a
\* block_recv (receive_blocks) and a preset TransactionManager a bytes_receiver
\* (receive_bytes) whose senders the program keeps.
Frames == {"0xDEADBEEF", "0x00"}
UserBlockIds == {BlockIdNumber(100)}

\* The program sends a BlockId to the ChannelManager it preset.
User_SendBlock(block_id) ==
    /\ chan["user_blocks"].senders > 0
    /\ CanSend(chan, "user_blocks")
    /\ user.blocks < MaxFeed
    /\ user' = [user EXCEPT !.blocks = @ + 1]
    /\ chan' = Enqueue(chan, "user_blocks", block_id)
    /\ UNCHANGED <<start_pc, archon, driver, cm, tm, pipeHist>>
    /\ UNCHANGED l1_count

\* The program sends a frame to the TransactionManager it preset.
User_SendBytes(bytes) ==
    /\ chan["user_bytes"].senders > 0
    /\ CanSend(chan, "user_bytes")
    /\ user.bytes < MaxFeed
    /\ user' = [user EXCEPT !.bytes = @ + 1]
    /\ chan' = Enqueue(chan, "user_bytes", bytes)
    /\ UNCHANGED <<start_pc, archon, driver, cm, tm, pipeHist>>
    /\ UNCHANGED l1_count

\* The program drops the sender of one of its channels.
User_Drop(id) ==
    /\ chan[id].senders > 0
    /\ chan' = DropSender(chan, id)
    /\ UNCHANGED <<start_pc, archon, driver, cm, tm, user, pipeHist>>
    /\ UNCHANGED l1_count

\* The program takes the next message from a channel whose Receiver it holds.
User_Recv(id) ==
    /\ chan[id].receiver
    /\ CanRecv(chan, id)
    /\ chan' = Dequeue(chan, id)
    /\ UNCHANGED <<start_pc, archon, driver, cm, tm, user, pipeHist>>
    /\ UNCHANGED l1_count

\* The program drops the Receiver of one of its channels.
User_DropReceiver(id) ==
    /\ chan[id].receiver
    /\ chan' = DropReceiver(chan, id)
    /\ UNCHANGED <<start_pc, archon, driver, cm, tm, user, pipeHist>>
    /\ UNCHANGED l1_count

\* ---------------------------------------- ChannelManager::clear (channels.rs)
\* ChannelManager::new(): Self::default(), both maps empty.  No method inserts
\* into either field; execute records its frames in a map of its own.
ChannelManagerNew == [pending_txs |-> {}, confirmed_txs |-> {}]

\* clear_pending_channels: both maps are cleared.
clear_pending_channels(m) == [m EXCEPT !.pending_txs = {}, !.confirmed_txs = {}]

\* ChannelManager::clear, called by the owner of the manager while the block
\* processor it spawned runs: State::clear under the lock, then
\* clear_pending_channels.  (The lock fails only when poisoned; no holder of
\* it panics.)
ChannelManager_clear ==
    /\ cleared.calls < MaxClear
    /\ blocks' = clear(blocks, tip).blocks
    /\ tip' = clear(blocks, tip).tip
    /\ manager' = clear_pending_channels(manager)
    /\ cleared' = [calls |-> cleared.calls + 1, dropped |-> Len(blocks)]

\* --------------------------------------------- TransactionID (channels.rs)
\* TransactionID { channel_id: String, frame_number: u64 }; a String is the
\* sequence of its bytes.
ChannelIds == UNION { [1..n -> 1..NumChars] : n \in 0..MaxChanIdLen }
TransactionIDs ==
    { [channel_id |-> c, frame_number |-> f] : c \in ChannelIds, f \in 0..MaxFrameNumber }

\* Ord::cmp of two u64 (or two bytes).
cmp_u64(x, y) == IF x < y THEN "Less" ELSE IF x = y THEN "Equal" ELSE "Greater"

\* Ord::cmp of two Strings: the first differing byte decides; with none, the
\* shorter String is the smaller.
RECURSIVE cmp_string(_, _)
cmp_string(s, t) ==
    IF s = <<>> /\ t = <<>> THEN "Equal"
    ELSE IF s = <<>> THEN "Less"
    ELSE IF t = <<>> THEN "Greater"
    ELSE IF Head(s) # Head(t) THEN cmp_u64(Head(s), Head(t))
    ELSE cmp_string(Tail(s), Tail(t))

cmp_frame_number_first(a, b) ==
    IF cmp_u64(a.frame_number, b.frame_number) # "Equal"
    THEN cmp_u64(a.frame_number, b.frame_number)
    ELSE cmp_string(a.channel_id, b.channel_id)

\* #[derive(PartialOrd, Ord)]: the fields are compared in declaration order,
\* the first that is not Equal decides.
cmp(a, b) ==
    IF cmp_string(a.channel_id, b.channel_id) # "Equal"
    THEN cmp_string(a.channel_id, b.channel_id)
    ELSE cmp_u64(a.frame_number, b.frame_number)

\* #[derive(PartialEq, Eq)]: all fields equal.
eq(a, b) == a.channel_id = b.channel_id /\ a.frame_number = b.frame_number

\* TransactionID::default(): channel_id "0:0" (the bytes '0', ':', '0') and
\* frame_number 0.
DefaultTransactionID == [channel_id |-> <<48, 58, 48>>, frame_number |-> 0]
NotCompared ==
    [done |-> FALSE, a |-> DefaultTransactionID, b |-> DefaultTransactionID,
     a_cmp_b |-> "Equal", b_cmp_a |-> "Equal", a_eq_b |-> TRUE]

\* A caller compares two TransactionIDs: a.cmp(&b), b.cmp(&a), a == b.
Compare(a, b) ==
    compared' = [done |-> TRUE, a |-> a, b |-> b,
                 a_cmp_b |-> cmp(a, b), b_cmp_a |-> cmp(b, a), a_eq_b |-> eq(a, b)]

\* ------------------------------------------------------------ specifications
InitState ==
    /\ blocks = StateNew.blocks
    /\ tip = StateNew.tip
    /\ pushed = <<>>
    /\ updates = <<>>
    /\ last_op = [op |-> "new", dropped |-> 0]

InitIngestAt(pc) ==
    /\ pb_pc = pc
    /\ first_iter = TRUE
    /\ last_stored_block_number = 0
    /\ start_block = 0
    /\ end_block = 0
    /\ block_number = 0
    /\ l2_head = 0
    /\ reorg_at = None
    /\ sync_result = NoSync
    /\ last_update = "None"
    /\ fetched = <<>>
    /\ cycle = NoCycle
    /\ pb_sleeps = NoSleeps

\* process_blocks at the top of its loop.
InitIngest == InitIngestAt("top")

\* Archon::new(config), then with_channel_manager / with_transaction_manager
\* or not; no task is spawned yet.
InitPipeline(preset_cm, preset_tm) ==
    /\ start_pc = "build"
    /\ archon = [driver_receiver |-> NoChan, channel_manager_sender |-> NoChan,
                 tx_manager_sender |-> NoChan, tx_manager_receiver |-> NoChan,
                 receipt_recv |-> NoChan,
                 channel_manager |-> preset_cm, tx_manager |-> preset_tm]
    /\ chan = [id \in ChanIds |->
                 IF id \in {preset_cm, preset_tm} THEN Fresh ELSE Unmade]
    /\ driver = [pc |-> "unspawned", sender |-> NoChan, polled |-> NoPoll,
                 first_iter |-> TRUE, sleeps |-> 0, result |-> "running"]
    /\ cm = [pc |-> "unspawned", receiver |-> NoChan, sender |-> NoChan,
             block_recv |-> NoChan, block_id |-> NoChan, pending_txs |-> {},
             result |-> "running"]
    /\ tm = [pc |-> "unspawned", receiver |-> NoChan, sender |-> NoChan,
             bytes_receiver |-> NoChan, tx_bytes |-> NoChan, tx |-> NoTx,
             confirmations |-> 0, submitted |-> <<>>, wallet |-> NoWallet,
             in_flight |-> 0, send_result |-> "none", result |-> "running"]
    /\ user = [blocks |-> 0, bytes |-> 0]
    /\ emitted = <<>>
    /\ cm_received = <<>>
    /\ frames_sent = <<>>
    /\ tm_received = <<>>
    /\ receipts_sent = <<>>
    /\ receipts_logged = <<>>

InitOrder == compared = NotCompared

InitManager ==
    /\ manager = ChannelManagerNew
    /\ cleared = [calls |-> 0, dropped |-> 0]

Init ==
    InitState /\ InitIngest /\ InitPipeline(NoChan, NoChan) /\ InitOrder /\ InitManager
      /\ InitChain
      /\ InitBuilder
      /\ InitLifecycle
      /\ InitRuntime

PipelineInit ==
    /\ InitState
    /\ InitIngest
    /\ InitOrder
    /\ InitManager
    /\ InitChain
    /\ InitBuilder
    /\ InitLifecycle
    /\ InitRuntime
    /\ \E preset_cm \in {NoChan, "user_blocks"}, preset_tm \in {NoChan, "user_bytes"} :
         InitPipeline(preset_cm, preset_tm)

vars ==
    <<stateVars, histVars, ingestVars, l2Vars, pipeVars, pipeHist, ordVars, mgrVars,
      chainVars, builderVars, lifeVars, rtVars>>

\* Any sequence of add_block and clear calls on one State.
Next ==
    \/ \E block \in OfferedBlocks(Len(pushed) + 1) :
          AddBlock(block) /\ UNCHANGED <<ingestVars, l2Vars, pipeVars, pipeHist, ordVars, mgrVars, chainVars, builderVars, lifeVars, rtVars>>
    \/ Clear /\ UNCHANGED <<ingestVars, l2Vars, pipeVars, pipeHist, ordVars, mgrVars, chainVars, builderVars, lifeVars, rtVars>>

Spec == Init /\ [][Next]_vars

\* process_blocks, running against the two nodes.
IngestNext ==
    \/ PB_LoopTop /\ UNCHANGED <<histVars, pipeVars, pipeHist, ordVars, mgrVars, chainVars, builderVars, lifeVars, rtVars>>
    \/ PB_SyncErr /\ UNCHANGED <<histVars, pipeVars, pipeHist, ordVars, mgrVars, chainVars, builderVars, lifeVars, rtVars>>
    \/ \E status \in SyncStatuses : PB_SyncOk(status) /\ UNCHANGED <<histVars, pipeVars, pipeHist, ordVars, mgrVars, chainVars, builderVars, lifeVars, rtVars>>
    \/ PB_ForDone /\ UNCHANGED <<histVars, pipeVars, pipeHist, ordVars, mgrVars, chainVars, builderVars, lifeVars, rtVars>>
    \/ PB_FetchFail /\ UNCHANGED <<histVars, pipeVars, pipeHist, ordVars, mgrVars, chainVars, builderVars, lifeVars, rtVars>>
    \/ PB_FetchNoNumber /\ UNCHANGED <<histVars, pipeVars, pipeHist, ordVars, mgrVars, chainVars, builderVars, lifeVars, rtVars>>
    \/ \E block \in FetchedBlocks(block_number) : PB_FetchOk(block) /\ UNCHANGED <<histVars, pipeVars, pipeHist, ordVars, mgrVars, chainVars, builderVars, lifeVars, rtVars>>
    \/ L2Advance /\ UNCHANGED <<stateVars, histVars, ingestVars, pipeVars, pipeHist, ordVars, mgrVars, chainVars, builderVars, lifeVars, rtVars>>
    \/ L2Reorg /\ UNCHANGED <<stateVars, histVars, ingestVars, pipeVars, pipeHist, ordVars, mgrVars, chainVars, builderVars, lifeVars, rtVars>>
    \/ ChannelManager_clear /\ UNCHANGED <<histVars, ingestVars, l2Vars, pipeVars, pipeHist, ordVars, chainVars, builderVars, lifeVars, rtVars>>

IngestSpec == Init /\ [][IngestNext]_vars

\* The steps of process_blocks, a task spawn_block_processor gives to the
\* tokio runtime: it is scheduled while it can step, its sleep ends and the
\* nodes answer every call, with a result or with an error.
ProcessBlocksStep ==
    (\/ PB_LoopTop
     \/ PB_SyncErr
     \/ \E status \in SyncStatuses : PB_SyncOk(status)
     \/ PB_ForDone
     \/ PB_FetchFail
     \/ PB_FetchNoNumber
     \/ \E block \in FetchedBlocks(block_number) : PB_FetchOk(block))
    /\ UNCHANGED <<histVars, pipeVars, pipeHist, ordVars, mgrVars, chainVars, builderVars, lifeVars, rtVars>>

\* process_blocks alone against the two nodes, under that fairness.
ProcessBlocksNext ==
    \/ ProcessBlocksStep
    \/ L2Advance /\ UNCHANGED <<stateVars, histVars, ingestVars, pipeVars, pipeHist, ordVars, mgrVars, chainVars, builderVars, lifeVars, rtVars>>
    \/ L2Reorg /\ UNCHANGED <<stateVars, histVars, ingestVars, pipeVars, pipeHist, ordVars, mgrVars, chainVars, builderVars, lifeVars, rtVars>>

FairProcessBlocksSpec == Init /\ [][ProcessBlocksNext]_vars /\ WF_vars(ProcessBlocksStep)

\* Archon::start, the tasks it spawns, and the embedding program.
otherVars == <<stateVars, histVars, ingestVars, l2Vars, ordVars, mgrVars, builderVars, lifeVars, rtVars>>

PipelineNext ==
    \/ Start_BuildPipeline /\ UNCHANGED otherVars
    \/ Start_SpawnDriver /\ UNCHANGED otherVars
    \/ Start_SpawnChannelManager /\ UNCHANGED otherVars
    \/ Start_SpawnTransactionManager /\ UNCHANGED otherVars
    \/ Start_ReceiptLoop /\ UNCHANGED otherVars
    \/ Start_MetricsFail /\ UNCHANGED otherVars
    \/ D_LoopTop /\ UNCHANGED otherVars
    \/ D_PollFail /\ UNCHANGED otherVars
    \/ \E l1_tip \in L1Tips : D_Poll(l1_tip) /\ UNCHANGED otherVars
    \/ CM_Recv /\ UNCHANGED otherVars
    \/ CM_TxData /\ UNCHANGED otherVars
    \/ TM_Recv /\ UNCHANGED otherVars
    \/ TM_CraftFail /\ UNCHANGED otherVars
    \/ TM_Craft /\ UNCHANGED otherVars
    \/ TM_SendFail /\ UNCHANGED otherVars
    \/ TM_Broadcast /\ UNCHANGED otherVars
    \/ TM_Confirm /\ UNCHANGED otherVars
    \/ TM_SendOk /\ UNCHANGED otherVars
    \/ \E block_id \in UserBlockIds : User_SendBlock(block_id) /\ UNCHANGED otherVars
    \/ \E bytes \in Frames : User_SendBytes(bytes) /\ UNCHANGED otherVars
    \/ \E id \in {"user_blocks", "user_bytes"} : User_Drop(id) /\ UNCHANGED otherVars

PipelineSpec == PipelineInit /\ [][PipelineNext]_vars

\* A Driver used on its own: the program makes the BlockId channel, builds the
\* Driver with the Sender (Driver::new or with_channel), spawns it, and keeps
\* the Receiver, which it reads or drops.
DriverAlone(pb) ==
    /\ InitState
    /\ InitIngestAt(pb)
    /\ InitOrder
    /\ InitManager
    /\ InitChain
    /\ InitBuilder
    /\ InitLifecycle
    /\ InitRuntime
    /\ start_pc = "none"
    /\ archon = [driver_receiver |-> NoChan, channel_manager_sender |-> NoChan,
                 tx_manager_sender |-> NoChan, tx_manager_receiver |-> NoChan,
                 receipt_recv |-> NoChan,
                 channel_manager |-> NoChan, tx_manager |-> NoChan]
    /\ chan = [id \in ChanIds |-> IF id = "user_driver_blocks" THEN Fresh ELSE Unmade]
    /\ driver = [pc |-> "top", sender |-> "user_driver_blocks", polled |-> NoPoll,
                 first_iter |-> TRUE, sleeps |-> 0, result |-> "running"]
    /\ cm = [pc |-> "unspawned", receiver |-> NoChan, sender |-> NoChan,
             block_recv |-> NoChan, block_id |-> NoChan, pending_txs |-> {},
             result |-> "running"]
    /\ tm = [pc |-> "unspawned", receiver |-> NoChan, sender |-> NoChan,
             bytes_receiver |-> NoChan, tx_bytes |-> NoChan, tx |-> NoTx,
             confirmations |-> 0, submitted |-> <<>>, wallet |-> NoWallet,
             in_flight |-> 0, send_result |-> "none", result |-> "running"]
    /\ user = [blocks |-> 0, bytes |-> 0]
    /\ emitted = <<>>
    /\ cm_received = <<>>
    /\ frames_sent = <<>>
    /\ tm_received = <<>>
    /\ receipts_sent = <<>>
    /\ receipts_logged = <<>>

DriverInit == DriverAlone("top")

DriverNext ==
    \/ D_LoopTop /\ UNCHANGED otherVars
    \/ D_PollFail /\ UNCHANGED otherVars
    \/ \E l1_tip \in L1Tips : D_Poll(l1_tip) /\ UNCHANGED otherVars
    \/ User_Recv("user_driver_blocks") /\ UNCHANGED otherVars
    \/ User_DropReceiver("user_driver_blocks") /\ UNCHANGED otherVars

DriverSpec == DriverInit /\ [][DriverNext]_vars

\* Either polling loop on its own: a Driver spawned alone, with no block
\* processor spawned, or process_blocks with no Driver.  The two share nothing.
PollingInit == DriverAlone("unspawned") \/ Init

PollingNext == DriverNext \/ ProcessBlocksNext

PollingSpec == PollingInit /\ [][PollingNext]_vars

\* A TransactionManager used on its own: the program makes the Bytes channel
\* and the receipt channel, builds the manager with TransactionManager::new,
\* with_receiver and with_sender, spawns it, and keeps the other two ends.
TxManagerInit ==
    /\ InitState
    /\ InitIngest
    /\ InitOrder
    /\ InitManager
    /\ InitChain
    /\ InitBuilder
    /\ InitLifecycle
    /\ InitRuntime
    /\ start_pc = "none"
    /\ archon = [driver_receiver |-> NoChan, channel_manager_sender |-> NoChan,
                 tx_manager_sender |-> NoChan, tx_manager_receiver |-> NoChan,
                 receipt_recv |-> NoChan,
                 channel_manager |-> NoChan, tx_manager |-> NoChan]
    /\ chan = [id \in ChanIds |->
                 IF id \in {"user_bytes", "user_receipts"} THEN Fresh ELSE Unmade]
    /\ driver = [pc |-> "unspawned", sender |-> NoChan, polled |-> NoPoll,
                 first_iter |-> TRUE, sleeps |-> 0, result |-> "running"]
    /\ cm = [pc |-> "unspawned", receiver |-> NoChan, sender |-> NoChan,
             block_recv |-> NoChan, block_id |-> NoChan, pending_txs |-> {},
             result |-> "running"]
    /\ tm = [pc |-> "recv", receiver |-> "user_bytes", sender |-> "user_receipts",
             bytes_receiver |-> NoChan, tx_bytes |-> NoChan, tx |-> NoTx,
             confirmations |-> 0, submitted |-> <<>>, wallet |-> RandomWallet,
             in_flight |-> 0, send_result |-> "none", result |-> "running"]
    /\ user = [blocks |-> 0, bytes |-> 0]
    /\ emitted = <<>>
    /\ cm_received = <<>>
    /\ frames_sent = <<>>
    /\ tm_received = <<>>
    /\ receipts_sent = <<>>
    /\ receipts_logged = <<>>

TxManagerNext ==
    \/ TM_Recv /\ UNCHANGED otherVars
    \/ TM_CraftFail /\ UNCHANGED otherVars
    \/ TM_Craft /\ UNCHANGED otherVars
    \/ TM_SendFail /\ UNCHANGED otherVars
    \/ TM_Broadcast /\ UNCHANGED otherVars
    \/ TM_Confirm /\ UNCHANGED otherVars
    \/ TM_SendOk /\ UNCHANGED otherVars
    \/ \E bytes \in Frames : User_SendBytes(bytes) /\ UNCHANGED otherVars
    \/ User_Drop("user_bytes") /\ UNCHANGED otherVars
    \/ User_Recv("user_receipts") /\ UNCHANGED otherVars
    \/ User_DropReceiver("user_receipts") /\ UNCHANGED otherVars
    \/ L1_SenderTx /\ UNCHANGED otherVars

TxManagerSpec == TxManagerInit /\ [][TxManagerNext]_vars

\* The construction of a TransactionManager and the call of spawn on it.
BuilderNext ==
    \/ TransactionManager_default /\ UNCHANGED <<stateVars, histVars, ingestVars, l2Vars, pipeVars, pipeHist, ordVars, mgrVars, chainVars, lifeVars, rtVars>>
    \/ \E options \in SUBSET TxManagerOptions :
          TransactionManager_new(options) /\ UNCHANGED <<stateVars, histVars, ingestVars, l2Vars, pipeVars, pipeHist, ordVars, mgrVars, chainVars, lifeVars, rtVars>>
    \/ TransactionManager_with_sender /\ UNCHANGED <<stateVars, histVars, ingestVars, l2Vars, pipeVars, pipeHist, ordVars, mgrVars, chainVars, lifeVars, rtVars>>
    \/ TransactionManager_with_receiver /\ UNCHANGED <<stateVars, histVars, ingestVars, l2Vars, pipeVars, pipeHist, ordVars, mgrVars, chainVars, lifeVars, rtVars>>
    \/ TransactionManager_spawn /\ UNCHANGED <<stateVars, histVars, ingestVars, l2Vars, pipeVars, pipeHist, ordVars, mgrVars, chainVars, lifeVars, rtVars>>

BuilderSpec == Init /\ [][BuilderNext]_vars

\* The process of bin/archon.rs: start on an Archon with no preset actor, the
\* tasks it spawns, and the cancellation signal.  Nothing is ever sent to the
\* ChannelManager or to the TransactionManager of this Archon, whose senders it
\* keeps: both tasks stay blocked in their first recv().
MainNext ==
    \/ Start_BuildPipeline /\ UNCHANGED otherVars
    \/ Start_SpawnDriver /\ UNCHANGED otherVars
    \/ Start_SpawnChannelManager /\ UNCHANGED otherVars
    \/ Start_SpawnTransactionManager /\ UNCHANGED otherVars
    \/ Start_ReceiptLoop /\ UNCHANGED otherVars
    \/ Start_MetricsFail /\ UNCHANGED otherVars
    \/ D_LoopTop /\ UNCHANGED otherVars
    \/ D_PollFail /\ UNCHANGED otherVars
    \/ \E l1_tip \in L1Tips : D_Poll(l1_tip) /\ UNCHANGED otherVars
    \/ Cancel /\ UNCHANGED <<stateVars, histVars, ingestVars, l2Vars, pipeVars, pipeHist, ordVars, mgrVars, chainVars, builderVars, rtVars>>

MainSpec == Init /\ [][MainNext]_vars

\* The tasks of the process on its runtime.  Nothing is sent to the
\* ChannelManager or the TransactionManager (MainSpec): on a worker, each
\* stays in its recv().
RuntimeNext ==
    \/ \E t \in Tasks : RT_Schedule(t) /\ UNCHANGED <<stateVars, histVars, ingestVars, l2Vars, pipeVars, pipeHist, ordVars, mgrVars, chainVars, builderVars, lifeVars>>
    \/ \E t \in Tasks : RT_Poll(t) /\ UNCHANGED <<stateVars, histVars, ingestVars, l2Vars, pipeVars, pipeHist, ordVars, mgrVars, chainVars, builderVars, lifeVars>>
    \/ \E t \in Tasks : RT_Reply(t) /\ UNCHANGED <<stateVars, histVars, ingestVars, l2Vars, pipeVars, pipeHist, ordVars, mgrVars, chainVars, builderVars, lifeVars>>
    \/ \E t \in Tasks : RT_Continue(t) /\ UNCHANGED <<stateVars, histVars, ingestVars, l2Vars, pipeVars, pipeHist, ordVars, mgrVars, chainVars, builderVars, lifeVars>>
    \/ \E t \in Tasks : RT_SleepDone(t) /\ UNCHANGED <<stateVars, histVars, ingestVars, l2Vars, pipeVars, pipeHist, ordVars, mgrVars, chainVars, builderVars, lifeVars>>

\* #[tokio::main] builds the runtime with some number of worker threads (the
\* number of cores), and start has spawned the four tasks.
RuntimeInit ==
    /\ InitState
    /\ InitIngest
    /\ InitPipeline(NoChan, NoChan)
    /\ InitOrder
    /\ InitManager
    /\ InitChain
    /\ InitBuilder
    /\ InitLifecycle
    /\ \E workers \in 1..MaxWorkers : runtime = Spawned(workers)

RuntimeSpec == RuntimeInit /\ [][RuntimeNext]_vars

\* A comparison of any two TransactionIDs.
OrderNext ==
    /\ ~compared.done
    /\ \E a \in TransactionIDs, b \in TransactionIDs : Compare(a, b)
    /\ UNCHANGED <<stateVars, histVars, ingestVars, l2Vars, pipeVars, pipeHist, mgrVars, chainVars, builderVars, lifeVars, rtVars>>

OrderSpec == Init /\ [][OrderNext]_vars


\* The steps of each task, for the fairness the tokio runtime gives a spawned
\* task that is not blocked (each task on a worker thread of its own), and
\* the steps of start up to its receipt loop.
StartStep ==
    (\/ Start_BuildPipeline
     \/ Start_SpawnDriver
     \/ Start_SpawnChannelManager
     \/ Start_SpawnTransactionManager
     \/ Start_ReceiptLoop) /\ UNCHANGED otherVars
DriverStep ==
    (D_LoopTop \/ D_PollFail \/ \E l1_tip \in L1Tips : D_Poll(l1_tip)) /\ UNCHANGED otherVars
ChannelManagerStep == (CM_Recv \/ CM_TxData) /\ UNCHANGED otherVars
TransactionManagerStep ==
    (TM_Recv \/ TM_CraftFail \/ TM_Craft \/ TM_SendFail \/ TM_Broadcast \/ TM_Confirm
       \/ TM_SendOk) /\ UNCHANGED otherVars

FairPipelineSpec ==
    /\ PipelineSpec
    /\ WF_vars(StartStep)
    /\ WF_vars(DriverStep)
    /\ WF_vars(ChannelManagerStep)
    /\ WF_vars(TransactionManagerStep)

\* The process, with the same fairness for start and for the tasks.
FairMainSpec ==
    /\ MainSpec
    /\ WF_vars(StartStep)
    /\ WF_vars(DriverStep)
    /\ WF_vars(ChannelManagerStep)
    /\ WF_vars(TransactionManagerStep)

\* The stand-alone Driver, its task scheduled whenever it can take a step.
FairDriverSpec == DriverSpec /\ WF_vars(DriverStep)

\* ------------------------------------------------------------------ claims
\* C1: after any sequence of add_block and clear calls, every two adjacent
\* stored blocks are linked: blocks[i+1].parent_hash = blocks[i].hash.
C1_AdjacentBlocksLinked ==
    \A i \in 1..(Len(blocks) - 1) : blocks[i + 1].parent_hash = blocks[i].hash

\* Two blocks are stored and a third, not extending them, was turned away.
C1_Witness ==
    /\ Len(blocks) >= 2
    /\ \E k \in 1..Len(updates) : updates[k] = "Reorg"

\* C2: tip is the hash of the last stored block when there is one and absent
\* when there is none; after an add_block that returned Added the tip is the
\* hash of the block just offered; after clear the tip is absent and no block
\* is stored.
C2_TipIsLastHash ==
    /\ blocks = <<>> => tip = None
    /\ blocks # <<>> => tip = Last(blocks).hash
    /\ (last_op.op = "add_block" /\ Last(updates) = "Added") => tip = Last(pushed).hash
    /\ last_op.op = "clear" => (tip = None /\ Len(blocks) = 0)

\* A clear has just emptied a State that held two blocks.
C2_Witness == last_op.op = "clear" /\ last_op.dropped >= 2

\* The k-th block offered names the (k-1)-th as its parent.
Linked(k) == pushed[k].parent_hash = pushed[k - 1].hash

\* C3: blocks with hashes, pushed one by one into an empty State: while each
\* block names its predecessor as parent every add_block returns Added, and at
\* the first block that does not, add_block returns Reorg (exactly there: every
\* block before it got Added).
C3_ReorgAtFirstMismatch ==
    \A k \in 1..Len(pushed) :
        (\A j \in 1..k : pushed[j].hash # None) =>
            /\ (\A j \in 2..k : Linked(j)) => (\A j \in 1..k : updates[j] = "Added")
            /\ (k >= 2 /\ ~Linked(k) /\ \A j \in 2..(k - 1) : Linked(j)) =>
                  (updates[k] = "Reorg" /\ \A j \in 1..(k - 1) : updates[j] = "Added")

\* Three blocks with hashes were pushed; the third is the first that does not
\* name its predecessor as parent.
C3_Witness ==
    /\ Len(pushed) = 3
    /\ \A j \in 1..3 : pushed[j].hash # None
    /\ Linked(2)
    /\ ~Linked(3)

\* The step is an add_block call with a block whose hash is absent.
MissingHashCall ==
    /\ Len(pushed') = Len(pushed) + 1
    /\ Last(pushed').hash = None

\* C4 as stated: whatever the State and the block's parent_hash, add_block on
\* a block without hash returns MissingBlockHash and changes neither the
\* stored blocks nor the tip.
C4_MissingHashAlwaysReported ==
    [][MissingHashCall =>
          (Last(updates') = "MissingBlockHash" /\ blocks' = blocks /\ tip' = tip)]_vars

\* C4 amended: add_block on a block without hash changes neither the stored
\* blocks nor the tip; it returns MissingBlockHash when the tip is absent or
\* equals the block's parent_hash, and Reorg when the tip is present and
\* differs from the block's parent_hash.
C4_MissingHashLeavesState ==
    [][MissingHashCall =>
          /\ blocks' = blocks
          /\ tip' = tip
          /\ Last(updates') =
                IF tip # None /\ tip # Last(pushed').parent_hash
                THEN "Reorg" ELSE "MissingBlockHash"]_vars

\* A block without hash, naming the tip as parent, was offered to a State that
\* holds a block, and got MissingBlockHash.
C4_Witness ==
    /\ last_op.op = "add_block"
    /\ Len(blocks) >= 1
    /\ Last(pushed).hash = None
    /\ Last(pushed).parent_hash = tip
    /\ Last(updates) = "MissingBlockHash"

\* C5: when the ingestion loop's add_block reports a reorg, the loop has
\* cleared State and reset last_stored_block_number to 0.
C5_ReorgClearsAndResets ==
    last_update = "Reorg" =>
        (blocks = <<>> /\ tip = None /\ last_stored_block_number = 0)

\* The block numbers s+1..u in order.
NumbersFrom(s, u) == [i \in 1..(u - s) |-> s + i]

\* C6: cold start (nothing stored, last_stored_block_number = 0), a synced
\* SyncStatus with safe_l2 < unsafe_l2, every fetch of a block the L2 node has
\* succeeding, no clear call in between: at the end of the iteration exactly the blocks safe_l2+1 ..
\* unsafe_l2 were requested and are stored, and last_stored_block_number is
\* unsafe_l2.
C6_ColdStartIngestsSafeToUnsafe ==
    (/\ pb_pc = "top"
     /\ sync_result.kind = "Ok"
     /\ sync_result.head_l1 # 0
     /\ cycle.cold
     /\ cycle.clean
     /\ cleared.calls = 0
     /\ sync_result.safe_l2 < sync_result.unsafe_l2)
    => /\ fetched = NumbersFrom(sync_result.safe_l2, sync_result.unsafe_l2)
       /\ [i \in 1..Len(blocks) |-> blocks[i].number] =
             NumbersFrom(sync_result.safe_l2, sync_result.unsafe_l2)
       /\ last_stored_block_number = sync_result.unsafe_l2

\* The sync_status call of this step failed or returned head_l1 == 0.
SyncUnusable(r) == r.kind = "Err" \/ (r.kind = "Ok" /\ r.head_l1 = 0)

\* C7: an iteration whose sync_status call fails or returns head_l1 == 0
\* fetches no L2 block, changes neither State nor last_stored_block_number,
\* and goes back to the top of the loop.
C7_UnusableSyncIsSkipped ==
    [][(pb_pc = "sync" /\ SyncUnusable(sync_result')) =>
          /\ blocks' = blocks
          /\ tip' = tip
          /\ last_stored_block_number' = last_stored_block_number
          /\ fetched' = <<>>
          /\ pb_pc' = "top"]_vars

\* The rollup node answered head_l1 == 0 to a loop that had stored blocks.
C7_Witness ==
    /\ pb_pc = "top"
    /\ sync_result.kind = "Ok"
    /\ sync_result.head_l1 = 0
    /\ Len(blocks) >= 1
    /\ last_stored_block_number > 0


\* The n-th message received is the n-th message sent.
Delivered(sent, got, n) ==
    IF Len(sent) >= n /\ Len(got) >= n THEN got[n] = sent[n] ELSE FALSE

\* C8: every BlockId the Driver emits is eventually received by
\* ChannelManager::execute, the n-th received being the n-th emitted.
C8_DriverBlockIdsReachChannelManager ==
    \A n \in 1..MaxEmit :
        (Len(emitted) >= n) ~> Delivered(emitted, cm_received, n)

\* A task has been spawned and has not returned.
Alive(task) == task.pc \notin {"unspawned", "exited"}

\* C9: while the ChannelManager and the TransactionManager tasks both run, the
\* channel the ChannelManager sends frames on is the channel the
\* TransactionManager receives from, and a send on it succeeds.
C9_FramesChannelIsShared ==
    (Alive(cm) /\ Alive(tm)) => (cm.sender = TM_Source /\ CanSend(chan, cm.sender))

\* C10: every receipt the TransactionManager emits is eventually logged by the
\* receipt loop of Archon::start, the n-th logged being the n-th emitted, and
\* the receipt loop is not over while the TransactionManager task runs.
C10_ReceiptsReachOrchestrator ==
    /\ \A n \in 1..MaxFeed :
          (Len(receipts_sent) >= n) ~> Delivered(receipts_sent, receipts_logged, n)
    /\ [](start_pc \in {"metrics", "returned"} => ~Alive(tm))

\* C11: the Driver emits a BlockId only in an iteration whose get_block(Latest)
\* returned a header with a hash or a number (never on an error, on an empty
\* response, or on a header with neither), and the BlockId it emits is the
\* header's hash when the hash is present, the header's number only when the
\* hash is absent.
C11_EmitsOnlyForFetchedBlock ==
    [][emitted' # emitted =>
         /\ driver'.polled.result = "OkSome"
         /\ \/ /\ driver'.polled.hash # None
               /\ emitted' = Append(emitted, BlockIdHash(driver'.polled.hash))
            \/ /\ driver'.polled.hash = None
               /\ driver'.polled.number # None
               /\ emitted' = Append(emitted, BlockIdNumber(driver'.polled.number))]_vars

\* A header with number and hash (emitted by hash), then a header with the
\* number alone (emitted by number).
C11_Witness ==
    /\ Len(emitted) = 2
    /\ emitted[1] = BlockIdHash(1)
    /\ emitted[2] = BlockIdNumber(7)
    /\ driver.polled = PollSome([hash |-> None, number |-> 7])

\* C12: Driver::execute returns when, and only when, its downstream channel
\* is closed: once the Receiver of the BlockId channel has been dropped the
\* task eventually returns, and it never returns while the Receiver lives
\* (whatever the L1 node answers).
C12_DriverReturnsOnClosedChannel ==
    /\ (driver.pc # "unspawned" /\ ~chan["user_driver_blocks"].receiver)
          ~> (driver.result # "running")
    /\ [](driver.result # "running" => ~chan["user_driver_blocks"].receiver)

\* C13: at every moment at most one BlockId sent by the Driver is queued in
\* the Driver's output channel and not yet consumed.
C13_AtMostOneBlockIdInFlight ==
    \A id \in {"driver_blocks", "user_driver_blocks"} : Len(chan[id].queue) <= 1

\* C14: when tx_data returns an error for the BlockId that
\* ChannelManager::execute has received, the loop sends nothing downstream for it and
\* keeps running: it goes back to receive the next BlockId.
C14_FrameErrorIsSkipped ==
    [][(cm.pc = "tx_data" /\ ~tx_data(cm.block_id).ok /\ cm' # cm) =>
         /\ frames_sent' = frames_sent
         /\ cm'.result = "running"
         /\ cm'.pc = "recv"]_vars

\* s is lexicographically smaller than t: s is a proper prefix of t, or at
\* the first position where they differ s has the smaller byte.
LexLess(s, t) ==
    \E k \in 1..Len(t) :
       /\ k <= Len(s) + 1
       /\ \A i \in 1..(k - 1) : s[i] = t[i]
       /\ IF k = Len(s) + 1 THEN TRUE ELSE s[k] < t[k]

\* C17: the comparison of TransactionIDs is a total order by channel_id
\* (lexicographic) first and frame_number second: for any a, b exactly one of
\* a < b, a == b, b < a holds, and a < b iff a.channel_id < b.channel_id, or
\* the channel_ids are equal and a.frame_number < b.frame_number.
C17_TransactionIDOrder ==
    compared.done =>
       LET a == compared.a
           b == compared.b
           a_lt_b == compared.a_cmp_b = "Less"
           b_lt_a == compared.b_cmp_a = "Less" IN
         /\ \/ a_lt_b /\ ~compared.a_eq_b /\ ~b_lt_a
            \/ ~a_lt_b /\ compared.a_eq_b /\ ~b_lt_a
            \/ ~a_lt_b /\ ~compared.a_eq_b /\ b_lt_a
         /\ a_lt_b <=> \/ LexLess(a.channel_id, b.channel_id)
                       \/ /\ a.channel_id = b.channel_id
                          /\ a.frame_number < b.frame_number

\* Two IDs on which the two fields disagree: the channel_id says a < b, the
\* frame_number says b < a, and a is a proper prefix of b.
C17_Witness ==
    /\ compared.done
    /\ compared.a = [channel_id |-> <<1>>, frame_number |-> 2]
    /\ compared.b = [channel_id |-> <<1, 2>>, frame_number |-> 0]
    /\ compared.a_cmp_b = "Less"

C20_OneTransactionPerFrame ==
    /\ \A i \in 1..Len(tm.submitted) :
          /\ tm.submitted[i].tx.chain_id = "l1_chain_id"
          /\ tm.submitted[i].tx.to = "l1_batch_inbox_address"
          /\ tm.submitted[i].tx.data = tm_received[tm.submitted[i].frame]
          /\ tm.submitted[i].tx.value = None
          /\ \A j \in 1..(i - 1) : tm.submitted[j].frame < tm.submitted[i].frame
    /\ Len(receipts_sent) <= Len(tm.submitted)
    /\ Len(tm.submitted) <= Len(receipts_sent) + 1
    /\ \A i \in 1..Len(receipts_sent) :
          /\ receipts_sent[i].tx = tm.submitted[i].tx
          /\ receipts_sent[i].confirmations >= 6

\* Two frames received; the first could not be crafted, the second was
\* submitted, confirmed and its receipt emitted.
C20_Witness ==
    /\ Len(tm_received) = 2
    /\ Len(receipts_sent) = 1
    /\ tm.submitted[1].frame = 2
    /\ receipts_sent[1].tx.data = tm_received[2]
    /\ tm_received[1] # tm_received[2]

\* C21: every transaction the TransactionManager broadcasts is signed by the
\* account of the configured sender private key, which is the sender address
\* whose transaction count gave the nonce.
C21_SignedBySender ==
    \A i \in DOMAIN tm.submitted : tm.submitted[i].signer = SenderAddress

C23_OneSendInFlight ==
    /\ tm.in_flight <= 1
    /\ tm.pc \in {"recv", "craft", "send"} => tm.in_flight = 0

C23_Witness ==
    /\ Len(tm.submitted) = 2
    /\ tm.in_flight = 1
    /\ tm.pc = "confirm"

\* C24: a step in which send_transaction fails (the broadcast, the wait for
\* the confirmations, or the absent receipt) ends the task with that error
\* and emits no receipt, and no receipt is emitted after the task has ended.
C24_SendErrorExits ==
    [][ /\ (tm'.send_result # tm.send_result /\ tm'.send_result \notin {"none", "Ok"})
           => /\ tm'.pc = "exited"
              /\ tm'.result = tm'.send_result
              /\ receipts_sent' = receipts_sent
        /\ tm.pc = "exited" => (tm'.pc = "exited" /\ receipts_sent' = receipts_sent)
      ]_vars

C24_Witness ==
    /\ tm.pc = "exited"
    /\ tm.result = "TransactionReceiptNotFound"
    /\ Len(receipts_sent) = 1
    /\ Len(tm.submitted) = 2

\* C25: when the frame channel the TransactionManager reads is closed (no
\* sender left and the queue drained), its next step ends the task with
\* ChannelClosed and broadcasts nothing, and nothing is broadcast afterwards.
C25_ClosedUpstreamExits ==
    [][ /\ (tm.pc = "recv" /\ Disconnected(chan, TM_Source) /\ tm' # tm)
           => /\ tm'.pc = "exited"
              /\ tm'.result = "ChannelClosed"
              /\ tm'.submitted = tm.submitted
        /\ tm.pc = "exited" => tm'.submitted = tm.submitted
      ]_vars

C25_Witness ==
    /\ tm.pc = "exited"
    /\ tm.result = "ChannelClosed"
    /\ Len(tm.submitted) = 1
    /\ chan["user_bytes"].senders = 0

\* C27: TransactionManager::spawn on a value with a required field missing
\* (receiver, sender, provider, L1 chain id, batch inbox address, sender
\* address, sender private key) returns the Missing* error of a missing field
\* and spawns no task; with all seven present it spawns the task.
MissingError(field) ==
    CASE field = "receiver" -> "MissingReceiver"
      [] field = "sender" -> "MissingSender"
      [] field = "provider" -> "MissingProvider"
      [] field = "l1_chain_id" -> "MissingL1ChainId"
      [] field = "l1_batch_inbox_address" -> "MissingL1BatchInboxAddress"
      [] field = "sender_address" -> "MissingSenderAddress"
      [] field = "sender_private_key" -> "MissingSenderPrivateKey"

C27_SpawnRequiresAllFields ==
    tm_builder.pc = "spawn_called" =>
        IF TxManagerFields \subseteq tm_builder.self
        THEN tm_builder.out = [result |-> "Ok", spawned |-> TRUE]
        ELSE /\ ~tm_builder.out.spawned
             /\ \E field \in TxManagerFields \ tm_builder.self :
                    tm_builder.out.result = MissingError(field)

C27_Witness ==
    /\ tm_builder.pc = "spawn_called"
    /\ tm_builder.self = TxManagerFields \ {"sender_private_key"}
    /\ tm_builder.out.result = "MissingSenderPrivateKey"

\* C28: process_blocks never returns, whatever calls of the rollup node and of
\* the L2 node fail, and after each failed call (sync_status, or the fetch of
\* a block) a later iteration polls the rollup node again.
RpcFailed ==
    \/ pb_pc = "top" /\ sync_result.kind = "Err"
    \/ pb_pc = "for" /\ fetched # <<>> /\ last_update = "None"

C29_CancelStopsActors ==
    cancelled ~> ( /\ driver.pc = "exited" /\ driver.result = "Ok"
                   /\ cm.pc = "exited" /\ cm.result = "Ok"
                   /\ tm.pc = "exited" /\ tm.result = "Ok" )

\* C30: once a spawned actor has returned an error, eventually start has
\* returned.
C30_ActorErrorEndsStart ==
    ( \/ driver.pc = "exited" /\ driver.result # "Ok"
      \/ cm.pc = "exited" /\ cm.result # "Ok"
      \/ tm.pc = "exited" /\ tm.result # "Ok" )
    ~> (start_pc = "returned")

\* C31: a task that has a step to take (it waits in the run queue) is never
\* kept from it by tasks suspended in a sleep or a channel receive: not every
\* worker thread is held by such a task, whatever the number of workers.
C31_NoActorBlocksAnother ==
    (\E t \in Tasks : runtime.task[t].sched = "queued")
        => Cardinality(BlockingThread(runtime)) < runtime.workers

\* C32: every call of ChannelManager::tx_data the ChannelManager has made, with
\* whatever BlockId it received, returned Ok with empty frame bytes and the
\* default TransactionID (channel_id "0:0", frame_number 0).
C32_TxDataReturnsDefault ==
    \A i \in DOMAIN cm_received :
        (i < Len(cm_received) \/ cm.pc # "tx_data") =>
            LET r == tx_data(cm_received[i]) IN
                r.ok /\ r.bytes = <<>> /\ r.tx_id = <<"0:0", 0>>

\* C33: when process_blocks has just assigned last_stored_block_number = n in
\* its block range, add_block returned Added and block n is the last entry of
\* the State's blocks.
C33_StoredNumberIsAppended ==
    (pb_pc = "for" /\ last_update # "None") =>
        /\ last_update = "Added"
        /\ blocks # <<>>
        /\ blocks[Len(blocks)].number = last_stored_block_number

\* C34: in a cycle whose range has, after the snap, start_block >= end_block,
\* no L2 block is fetched and the State's blocks and tip do not change.
C34_EmptyRangeFetchesNothing ==
    [][(pb_pc = "for" /\ start_block >= end_block) =>
          /\ fetched' = fetched
          /\ blocks' = blocks
          /\ tip' = tip]_vars

\* The for loop of this iteration is over.
CycleDone == pb_pc = "top" /\ sync_result.kind = "Ok" /\ sync_result.head_l1 # 0

\* The block numbers requested in this iteration.
Fetched == {fetched[i] : i \in DOMAIN fetched}

C36_OneSleepBetweenPolls ==
    /\ driver.pc = "poll" => driver.sleeps = (IF driver.polled = NoPoll THEN 0 ELSE 1)
    /\ pb_pc = "sync" => pb_sleeps.since_poll = (IF pb_sleeps.polled THEN 1 ELSE 0)

\* The Driver is about to poll again after a poll that failed.
C36_Witness ==
    /\ driver.pc = "poll"
    /\ driver.polled \in {PollErr, PollNone}
    /\ driver.sleeps = 1

\* Block n is in the range of a cycle in which the fetch of a block the L2
\* node has failed.
Due(n) ==
    /\ pb_pc = "for"
    /\ cycle.failed \cap cycle.lost # {}
    /\ start_block < n
    /\ n <= end_block

\* From here on the nodes answer every call: the rollup node is synced and
\* block n stays between its safe and unsafe heads, and every block asked of
\* the L2 node comes back complete.
GoodCalls(n) ==
    /\ sync_result.kind # "Err"
    /\ sync_result.kind = "Ok" =>
         /\ sync_result.head_l1 # 0
         /\ sync_result.safe_l2 < n
         /\ n <= sync_result.unsafe_l2
    /\ cycle.lost = {}

Stored(n) == \E i \in 1..Len(blocks) : blocks[i].number = n

\* C37: when a fetch fails in a cycle and, from the next cycle on, every call
\* succeeds and the L2 chain never reorgs, every block of that cycle's range
\* start_block+1 .. end_block is eventually in the Block State.
C37_IngestionRecovers ==
    \A n \in 1..MaxL2 :
        []((/\ Due(n)
            /\ [](reorg_at = None)
            /\ [](pb_pc = "sync" => []GoodCalls(n)))
           => <>Stored(n))

\* C38: no frame the TransactionManager has received is dropped: whenever the
\* task is back at recv() for the next frame, every frame it has received has
\* had its receipt emitted (a frame without one ends the task with an error).
C38_NoFrameDropped ==
    tm.pc = "recv" => Len(receipts_sent) = Len(tm_received)

====
